---- MODULE Spec2Model ----
(***************************************************************************)
(* Model of the knapsack evaluation core: Item and its text encoding,      *)
(* Knapsack with its value/weight aggregation and its file loader, the     *)
(* CliffScore ordering, the cliff scorer, and the per-generation best-ever *)
(* bookkeeping of main.                                                    *)
(*                                                                         *)
(* Unsigned 64-bit integers are kept at their width.  TLC's integers are   *)
(* 32 bits wide, so a u64 is a sequence of four 16-bit limbs, the most     *)
(* significant first.  usize is taken to be 64 bits wide.                  *)
(***************************************************************************)
EXTENDS Integers, Sequences, FiniteSets, TLC

VARIABLES
    pc,               \* position of the program or of the harness applying a function
    overflow_checks,  \* build profile: TRUE = overflow checks on (debug), FALSE = off (release)
    sa, sb, sc,       \* three CliffScore values being compared
    ord,              \* results of CliffScore::cmp on them
    fields,           \* the fields a text line was written from
    line,             \* a text line: a sequence of characters
    parsed,           \* result of Item::from_str on line
    file_opens,       \* whether File::open succeeds
    file,             \* the lines of the instance file
    memory,           \* the bytes the allocator can grant to one request
    loaded,           \* result of Knapsack::from_file_path
    knapsack,         \* <<>> or <<k>>: the Knapsack in use
    choices,          \* a Bitstring: sequence of booleans
    value_result,     \* result of Knapsack::value
    weight_result,    \* result of Knapsack::weight
    score_result,     \* result of CliffScorer::score
    population,       \* the evaluated population of the current generation
    best_in_run,      \* Option<EcIndividual>: <<>> or <<individual>>
    generation,       \* number of generations reported so far
    gen_best,         \* <<>> or <<best individual of the last reported generation>>
    gen_bests         \* the best scores of the reported generations, in order

cmpVars   == <<sa, sb, sc, ord>>
parseVars == <<fields, line, parsed>>
loadVars  == <<file_opens, file, memory, loaded>>
scoreVars == <<choices, value_result, weight_result, score_result>>
runVars   == <<population, best_in_run, generation, gen_best, gen_bests>>
vars == <<pc, overflow_checks, cmpVars, parseVars, loadVars, knapsack, scoreVars, runVars>>

----------------------------------------------------------------------------
(* u64 arithmetic *)

Base == 65536

U64(n) == <<0, 0, 0, n>>

U64_MAX == <<Base - 1, Base - 1, Base - 1, Base - 1>>

\* x + y, wrapped, with the overflow flag (u64::overflowing_add)
overflowing_add(x, y) ==
    LET s4 == x[4] + y[4]
        s3 == x[3] + y[3] + (s4 \div Base)
        s2 == x[2] + y[2] + (s3 \div Base)
        s1 == x[1] + y[1] + (s2 \div Base)
    IN  [val |-> <<s1 % Base, s2 % Base, s3 % Base, s4 % Base>>,
         overflow |-> s1 >= Base]

\* x * m for a small m, wrapped, with the overflow flag (u64::overflowing_mul)
overflowing_mul(x, m) ==
    LET p4 == x[4] * m
        p3 == x[3] * m + (p4 \div Base)
        p2 == x[2] * m + (p3 \div Base)
        p1 == x[1] * m + (p2 \div Base)
    IN  [val |-> <<p1 % Base, p2 % Base, p3 % Base, p4 % Base>>,
         overflow |-> p1 >= Base]

\* Ord for u64: "Less", "Equal" or "Greater"
cmp_u64(x, y) ==
    IF x = y THEN "Equal"
    ELSE LET i == CHOOSE k \in 1..4 : x[k] # y[k] /\ \A j \in 1..(k - 1) : x[j] = y[j]
         IN  IF x[i] < y[i] THEN "Less" ELSE "Greater"

----------------------------------------------------------------------------
(* u64::from_str, as used by str::parse and FromStr::from_str *)

DigitChars == <<"0", "1", "2", "3", "4", "5", "6", "7", "8", "9">>

is_digit(c) == \E d \in 1..10 : DigitChars[d] = c

to_digit(c) == (CHOOSE d \in 1..10 : DigitChars[d] = c) - 1

ParseOk(v) == [ok |-> TRUE, val |-> v, err |-> ""]

ParseErr(e) == [ok |-> FALSE, val |-> U64(0), err |-> e]

\* the digit loop: result = result * 10 + digit, checked
RECURSIVE from_digits(_, _)
from_digits(digits, result) ==
    IF digits = <<>> THEN ParseOk(result)
    ELSE IF ~is_digit(Head(digits)) THEN ParseErr("InvalidDigit")
    ELSE LET mul == overflowing_mul(result, 10)
             sum == overflowing_add(mul.val, U64(to_digit(Head(digits))))
         IN  IF mul.overflow \/ sum.overflow THEN ParseErr("PosOverflow")
             ELSE from_digits(Tail(digits), sum.val)

\* an unsigned type accepts one leading "+", never a "-"
u64_from_str(src) ==
    IF src = <<>> THEN ParseErr("Empty")
    ELSE IF src = <<"+">> \/ src = <<"-">> THEN ParseErr("InvalidDigit")
    ELSE from_digits(IF Head(src) = "+" THEN Tail(src) ELSE src, U64(0))

----------------------------------------------------------------------------
(* Item *)

Item_new(id, value, weight) == [id |-> id, value |-> value, weight |-> weight]

ItemOk(it) == [ok |-> TRUE, item |-> it, err |-> ""]

ItemErr(e) == [ok |-> FALSE, item |-> Item_new(U64(0), U64(0), U64(0)), err |-> e]

is_ascii_whitespace(c) == c \in {" ", "\t", "\n", "\f", "\r"}

\* str::split_ascii_whitespace: the maximal runs of non-whitespace characters
RECURSIVE split_from(_, _, _)
split_from(s, i, cur) ==
    IF i > Len(s) THEN (IF cur = <<>> THEN <<>> ELSE <<cur>>)
    ELSE IF is_ascii_whitespace(s[i])
         THEN (IF cur = <<>> THEN <<>> ELSE <<cur>>) \o split_from(s, i + 1, <<>>)
         ELSE split_from(s, i + 1, Append(cur, s[i]))

split_ascii_whitespace(s) == split_from(s, 1, <<>>)

\* from_str that takes the first three fields and lets further ones pass
Item_from_str_at_least_three(s) ==
    LET toks == split_ascii_whitespace(s)
        values == [i \in 1..Len(toks) |-> u64_from_str(toks[i])]
    IN  IF \E i \in 1..Len(toks) : ~values[i].ok THEN ItemErr("ParseIntError")
        ELSE IF Len(toks) < 3 THEN ItemErr("FieldCount")
        ELSE ItemOk(Item_new(values[1].val, values[2].val, values[3].val))

\* Item::from_str: every field is parsed (the first failure is returned), then
\* the number of fields is checked
Item_from_str(s) ==
    LET toks == split_ascii_whitespace(s)
        values == [i \in 1..Len(toks) |-> u64_from_str(toks[i])]
    IN  IF \E i \in 1..Len(toks) : ~values[i].ok THEN ItemErr("ParseIntError")
        ELSE IF Len(toks) # 3 THEN ItemErr("FieldCount")
        ELSE ItemOk(Item_new(values[1].val, values[2].val, values[3].val))

----------------------------------------------------------------------------
(* CliffScore *)

Overloaded == [tag |-> "Overloaded", v |-> U64(0)]

Score(n) == [tag |-> "Score", v |-> n]

\* the variants declared in the other order, Score before Overloaded
discriminant_score_first(s) == IF s.tag = "Overloaded" THEN 1 ELSE 0

\* position of the variant in the enum declaration
discriminant(s) == IF s.tag = "Overloaded" THEN 0 ELSE 1

\* a comparison that puts Overloaded below everything, itself included
cmp_overloaded_below_itself(a, b) ==
    IF a.tag = "Overloaded" THEN "Less"
    ELSE IF b.tag = "Overloaded" THEN "Greater"
    ELSE cmp_u64(a.v, b.v)

\* derived Ord: the variants in declaration order, then the payload
cmp(a, b) ==
    IF discriminant(a) < discriminant(b) THEN "Less"
    ELSE IF discriminant(a) > discriminant(b) THEN "Greater"
    ELSE IF a.tag = "Score" THEN cmp_u64(a.v, b.v)
    ELSE "Equal"

\* derived PartialOrd and PartialEq
gt(a, b) == cmp(a, b) = "Greater"

lt(a, b) == cmp(a, b) = "Less"

eq(a, b) == a.tag = b.tag /\ (a.tag = "Score" => a.v = b.v)

----------------------------------------------------------------------------
(* Knapsack *)

Knapsack_new(items, capacity) == [items |-> items, capacity |-> capacity]

num_items(k) == Len(k.items)

capacity(k) == k.capacity

SumOk(v) == [panic |-> FALSE, val |-> v]

SumPanic == [panic |-> TRUE, val |-> U64(0)]

\* Iterator::zip stops at the shorter of the two
zip(xs, ys) ==
    [i \in 1..(IF Len(xs) < Len(ys) THEN Len(xs) ELSE Len(ys)) |-> <<xs[i], ys[i]>>]

\* Iterator::sum for u64: a left fold with +, which panics on overflow when the
\* build has overflow checks and wraps when it has not
RECURSIVE sum_from(_, _, _)
sum_from(xs, i, acc) ==
    IF i > Len(xs) THEN SumOk(acc)
    ELSE LET r == overflowing_add(acc, xs[i])
         IN  IF r.overflow /\ overflow_checks THEN SumPanic
             ELSE sum_from(xs, i + 1, r.val)

sum(xs) == sum_from(xs, 1, U64(0))

\* the (item, included) pairs whose bit is set, in order
RECURSIVE then_some(_, _)
then_some(ps, i) ==
    IF i > Len(ps) THEN <<>>
    ELSE (IF ps[i][2] THEN <<ps[i][1]>> ELSE <<>>) \o then_some(ps, i + 1)

\* filter_map(|(item, included)| included.then_some(item.value())).sum()
value(k, bits) ==
    LET chosen == then_some(zip(k.items, bits), 1)
    IN  sum([i \in 1..Len(chosen) |-> chosen[i].value])

\* filter_map(|(item, included)| included.then_some(item.weight())).sum()
weight(k, bits) ==
    LET chosen == then_some(zip(k.items, bits), 1)
    IN  sum([i \in 1..Len(chosen) |-> chosen[i].weight])

----------------------------------------------------------------------------
(* CliffScorer *)

ScoreOk(s) == [panic |-> FALSE, score |-> s]

ScorePanic == [panic |-> TRUE, score |-> Overloaded]

\* a scorer whose threshold is off by one: a full knapsack counts as overloaded
score_full_is_overloaded(k, bits) ==
    LET total_weight == weight(k, bits)
    IN  IF total_weight.panic THEN ScorePanic
        ELSE IF cmp_u64(total_weight.val, capacity(k)) # "Less" THEN ScoreOk(Overloaded)
        ELSE LET total_value == value(k, bits)
             IN  IF total_value.panic THEN ScorePanic
                 ELSE ScoreOk(Score(total_value.val))

\* Overloaded when the total weight exceeds the capacity, else the total value
score(k, bits) ==
    LET total_weight == weight(k, bits)
    IN  IF total_weight.panic THEN ScorePanic
        ELSE IF cmp_u64(total_weight.val, capacity(k)) = "Greater" THEN ScoreOk(Overloaded)
        ELSE LET total_value == value(k, bits)
             IN  IF total_value.panic THEN ScorePanic
                 ELSE ScoreOk(Score(total_value.val))

----------------------------------------------------------------------------
(* Knapsack::from_file_path *)

LoadOk(k) == [kind |-> "Ok", knapsack |-> k, err |-> ""]

LoadErr(e) == [kind |-> "Err", knapsack |-> Knapsack_new(<<>>, U64(0)), err |-> e]

LoadPanic(e) == [kind |-> "Panic", knapsack |-> Knapsack_new(<<>>, U64(0)), err |-> e]

\* the process is aborted (SIGABRT): nothing is returned and nothing unwinds
LoadAbort(e) == [kind |-> "Abort", knapsack |-> Knapsack_new(<<>>, U64(0)), err |-> e]

NotLoaded == [kind |-> "None", knapsack |-> Knapsack_new(<<>>, U64(0)), err |-> ""]

ISIZE_MAX == <<(Base \div 2) - 1, Base - 1, Base - 1, Base - 1>>

\* size_of::<Item>(): three u64 fields
ItemSize == 24

\* Vec::<Item>::with_capacity(n) panics with "capacity overflow" when n items
\* take more than isize::MAX bytes
capacity_overflow(n) ==
    LET bytes == overflowing_mul(n, ItemSize)
    IN  bytes.overflow \/ cmp_u64(bytes.val, ISIZE_MAX) = "Greater"

\* the user address space of the process, 2^47 bytes: no request of that size
\* or more is ever granted
AddressSpace == <<0, Base \div 2, 0, 0>>

\* Vec::<Item>::with_capacity(n), past the capacity check, asks the allocator
\* for n * size_of::<Item>() bytes (for none when n = 0); a request that is
\* not granted ends in handle_alloc_error, which aborts the process
alloc_fails(n) ==
    LET bytes == overflowing_mul(n, ItemSize).val
    IN  /\ bytes # U64(0)
        /\ \/ cmp_u64(bytes, memory) = "Greater"
           \/ cmp_u64(bytes, AddressSpace) # "Less"

\* a loader that reads item n from line n, one line too early
RECURSIVE read_items_one_line_early(_, _, _)
read_items_one_line_early(lines, n_items, items) ==
    IF cmp_u64(U64(Len(items)), n_items) # "Less" THEN LoadOk(Knapsack_new(items, U64(0)))
    ELSE IF Len(items) + 2 > Len(lines) THEN LoadErr("MissingItemLine")
    ELSE LET item == Item_from_str(lines[Len(items) + 1])
         IN  IF ~item.ok THEN LoadErr("ItemParse")
             ELSE read_items_one_line_early(lines, n_items, Append(items, item.item))

\* the loop over 0..num_items: item n is parsed from the next line
RECURSIVE read_items(_, _, _)
read_items(lines, n_items, items) ==
    IF cmp_u64(U64(Len(items)), n_items) # "Less" THEN LoadOk(Knapsack_new(items, U64(0)))
    ELSE IF Len(items) + 2 > Len(lines) THEN LoadErr("MissingItemLine")
    ELSE LET item == Item_from_str(lines[Len(items) + 2])
         IN  IF ~item.ok THEN LoadErr("ItemParse")
             ELSE read_items(lines, n_items, Append(items, item.item))

from_file_path(opens, lines) ==
    IF ~opens THEN LoadErr("Io")
    ELSE IF lines = <<>> THEN LoadErr("Empty")
    ELSE LET n == u64_from_str(lines[1])
         IN  IF ~n.ok THEN LoadErr("ParseIntError")
             ELSE IF capacity_overflow(n.val) THEN LoadPanic("CapacityOverflow")
             ELSE IF alloc_fails(n.val) THEN LoadAbort("AllocFailed")
             ELSE LET read == read_items(lines, n.val, <<>>)
                      next == Len(read.knapsack.items) + 2
                  IN  IF read.kind # "Ok" THEN read
                      ELSE IF next > Len(lines) THEN LoadErr("NoCapacityLine")
                      ELSE LET c == u64_from_str(lines[next])
                           IN  IF ~c.ok THEN LoadErr("ParseIntError")
                               ELSE LoadOk(Knapsack_new(read.knapsack.items, c.val))

----------------------------------------------------------------------------
(* Values common to the specifications *)

\* sample u64 values in increasing numeric order: 0, 1, 65535, 65536, 2^64 - 1
U64Samples == <<U64(0), U64(1), U64(Base - 1), <<0, 0, 1, 0>>, U64_MAX>>

\* the position of a sample in that order
Rank(v) == CHOOSE i \in 1..Len(U64Samples) : U64Samples[i] = v

IntCmp(m, n) == IF m < n THEN "Less" ELSE IF m = n THEN "Equal" ELSE "Greater"

ScoreSamples == {Overloaded} \cup {Score(U64Samples[i]) : i \in 1..Len(U64Samples)}

SeqsUpTo(S, n) == UNION {[1..m -> S] : m \in 0..n}

IdleCmp == sa = Overloaded /\ sb = Overloaded /\ sc = Overloaded /\ ord = <<>>

IdleParse == fields = <<>> /\ line = <<>> /\ parsed = <<>>

\* what the allocator can grant: 4 GiB, or all but the last byte of the
\* address space
MemorySamples == {<<0, 1, 0, 0>>, <<0, (Base \div 2) - 1, Base - 1, Base - 1>>}

IdleLoad ==
    /\ file_opens = TRUE /\ file = <<>> /\ loaded = NotLoaded
    /\ memory = <<0, 1, 0, 0>>

IdleScore ==
    choices = <<>> /\ value_result = <<>> /\ weight_result = <<>> /\ score_result = <<>>

IdleRun ==
    /\ population = <<>> /\ best_in_run = <<>> /\ generation = 0
    /\ gen_best = <<>> /\ gen_bests = <<>>

----------------------------------------------------------------------------
(* SpecCmp: CliffScore::cmp and the derived comparison operators applied to *)
(* three scores                                                             *)

InitCmp ==
    /\ pc = "cmp"
    /\ overflow_checks = TRUE
    /\ sa \in ScoreSamples /\ sb \in ScoreSamples /\ sc \in ScoreSamples
    /\ ord = <<>>
    /\ IdleParse /\ IdleLoad /\ knapsack = <<>> /\ IdleScore /\ IdleRun

Compare ==
    /\ pc = "cmp"
    /\ ord' = [ab |-> cmp(sa, sb), ba |-> cmp(sb, sa), bc |-> cmp(sb, sc),
               ac |-> cmp(sa, sc), aa |-> cmp(sa, sa),
               lt_ab |-> lt(sa, sb), eq_ab |-> eq(sa, sb), gt_ab |-> gt(sa, sb)]
    /\ pc' = "done"
    /\ UNCHANGED <<overflow_checks, sa, sb, sc, parseVars, loadVars, knapsack,
                   scoreVars, runVars>>

NextCmp == Compare

SpecCmp == InitCmp /\ [][NextCmp]_vars

----------------------------------------------------------------------------
(* SpecParse: Item::from_str applied to a text line *)

MaxFields == 4

MaxStr == <<"1", "8", "4", "4", "6", "7", "4", "4", "0", "7",
            "3", "7", "0", "9", "5", "5", "1", "6", "1", "5">>

MaxPlusOneStr == <<"1", "8", "4", "4", "6", "7", "4", "4", "0", "7",
                   "3", "7", "0", "9", "5", "5", "1", "6", "1", "6">>

\* the fields a line is written from, each with the number it denotes as a
\* u64 (num is <<>> when it denotes none)
Tokens ==
    { [text |-> <<"7">>, num |-> <<U64(7)>>],
      [text |-> <<"+", "5">>, num |-> <<U64(5)>>],
      [text |-> <<"6", "5", "5", "3", "6">>, num |-> << <<0, 0, 1, 0>> >>],
      [text |-> MaxStr, num |-> <<U64_MAX>>],
      [text |-> MaxPlusOneStr, num |-> <<>>],
      [text |-> <<"-", "1">>, num |-> <<>>],
      [text |-> <<"x">>, num |-> <<>>] }

\* how the fields are laid out on the line
Layouts ==
    { [lead |-> <<>>, sep |-> <<" ">>, trail |-> <<>>],
      [lead |-> <<" ">>, sep |-> <<"\t">>, trail |-> <<" ">>],
      [lead |-> <<>>, sep |-> <<" ", " ">>, trail |-> <<"\t">>] }

RECURSIVE JoinFrom(_, _, _)
JoinFrom(fs, i, sep) ==
    IF i > Len(fs) THEN <<>>
    ELSE (IF i > 1 THEN sep ELSE <<>>) \o fs[i].text \o JoinFrom(fs, i + 1, sep)

Join(fs, layout) == layout.lead \o JoinFrom(fs, 1, layout.sep) \o layout.trail

InitParse ==
    /\ pc = "parse"
    /\ overflow_checks = TRUE
    /\ fields \in SeqsUpTo(Tokens, MaxFields)
    /\ \E layout \in Layouts : line = Join(fields, layout)
    /\ parsed = <<>>
    /\ IdleCmp /\ IdleLoad /\ knapsack = <<>> /\ IdleScore /\ IdleRun

ParseItem ==
    /\ pc = "parse"
    /\ parsed' = <<Item_from_str(line)>>
    /\ pc' = "done"
    /\ UNCHANGED <<overflow_checks, cmpVars, fields, line, loadVars, knapsack,
                   scoreVars, runVars>>

NextParse == ParseItem

SpecParse == InitParse /\ [][NextParse]_vars

----------------------------------------------------------------------------
(* SpecLoad: Knapsack::from_file_path applied to an instance file *)

MaxLines == 4

\* 10^9 and 10^13 as text
TenTo9Str == <<"1", "0", "0", "0", "0", "0", "0", "0", "0", "0">>

TenTo13Str == TenTo9Str \o <<"0", "0", "0", "0">>

\* the lines a file is written from, each with the u64 it denotes when the
\* whole line is a number (num) and the item it denotes when it is an item
\* line (item); <<>> when it denotes none
LineTable ==
    { [text |-> <<"0">>, num |-> <<U64(0)>>, item |-> <<>>],
      [text |-> <<"1">>, num |-> <<U64(1)>>, item |-> <<>>],
      [text |-> <<"2">>, num |-> <<U64(2)>>, item |-> <<>>],
      [text |-> <<"1", "0">>, num |-> <<U64(10)>>, item |-> <<>>],
      [text |-> MaxStr, num |-> <<U64_MAX>>, item |-> <<>>],
      [text |-> TenTo9Str, num |-> << <<0, 0, 15258, 51712>> >>, item |-> <<>>],
      [text |-> TenTo13Str, num |-> << <<0, 2328, 20082, 40960>> >>, item |-> <<>>],
      [text |-> <<"1", " ", "3", " ", "8">>, num |-> <<>>,
       item |-> <<Item_new(U64(1), U64(3), U64(8))>>],
      [text |-> <<"2", " ", "2", " ", "8">>, num |-> <<>>,
       item |-> <<Item_new(U64(2), U64(2), U64(8))>>],
      [text |-> <<"3", " ", "9", " ">> \o MaxStr, num |-> <<>>,
       item |-> <<Item_new(U64(3), U64(9), U64_MAX)>>],
      [text |-> <<"3", " ", "9">>, num |-> <<>>, item |-> <<>>],
      [text |-> <<"x">>, num |-> <<>>, item |-> <<>>] }

Entry(text) == CHOOSE e \in LineTable : e.text = text

\* the lines the files of SpecLoad are written from
LoadLines ==
    { <<"0">>, <<"1">>, <<"2">>, MaxStr, TenTo9Str, TenTo13Str,
      <<"1", " ", "3", " ", "8">>, <<"2", " ", "2", " ", "8">>,
      <<"3", " ", "9">>, <<"x">> }

InitLoad ==
    /\ pc = "load"
    /\ overflow_checks = TRUE
    /\ file_opens \in BOOLEAN
    /\ file \in SeqsUpTo(LoadLines, MaxLines)
    /\ memory \in MemorySamples
    /\ loaded = NotLoaded
    /\ IdleCmp /\ IdleParse /\ knapsack = <<>> /\ IdleScore /\ IdleRun

LoadFile ==
    /\ pc = "load"
    /\ loaded' = from_file_path(file_opens, file)
    /\ pc' = "done"
    /\ UNCHANGED <<overflow_checks, cmpVars, parseVars, file_opens, file, memory,
                   knapsack, scoreVars, runVars>>

NextLoad == LoadFile

SpecLoad == InitLoad /\ [][NextLoad]_vars

----------------------------------------------------------------------------
(* SpecScore: Knapsack::value, Knapsack::weight and the scorer applied to a *)
(* knapsack and a choice vector                                            *)

MaxItems == 2

MaxChoiceLen == 3

ItemSamples ==
    { Item_new(U64(1), U64(5), U64(8)),
      Item_new(U64(2), U64(9), U64(6)),
      Item_new(U64(3), U64(2), U64(0)),
      Item_new(U64(4), U64_MAX, U64(1)),
      Item_new(U64(5), U64(1), U64_MAX) }

CapacitySamples == {U64(0), U64(13), U64(14), U64_MAX}

InitScore ==
    /\ pc = "value"
    /\ overflow_checks \in BOOLEAN
    /\ \E items \in SeqsUpTo(ItemSamples, MaxItems), c \in CapacitySamples :
           knapsack = <<Knapsack_new(items, c)>>
    /\ choices \in SeqsUpTo(BOOLEAN, MaxChoiceLen)
    /\ value_result = <<>> /\ weight_result = <<>> /\ score_result = <<>>
    /\ IdleCmp /\ IdleParse /\ IdleLoad /\ IdleRun

CallValue ==
    /\ pc = "value"
    /\ value_result' = <<value(knapsack[1], choices)>>
    /\ pc' = "weight"
    /\ UNCHANGED <<overflow_checks, cmpVars, parseVars, loadVars, knapsack, choices,
                   weight_result, score_result, runVars>>

CallWeight ==
    /\ pc = "weight"
    /\ weight_result' = <<weight(knapsack[1], choices)>>
    /\ pc' = "score"
    /\ UNCHANGED <<overflow_checks, cmpVars, parseVars, loadVars, knapsack, choices,
                   value_result, score_result, runVars>>

CallScore ==
    /\ pc = "score"
    /\ score_result' = <<score(knapsack[1], choices)>>
    /\ pc' = "done"
    /\ UNCHANGED <<overflow_checks, cmpVars, parseVars, loadVars, knapsack, choices,
                   value_result, weight_result, runVars>>

NextScore == CallValue \/ CallWeight \/ CallScore

SpecScore == InitScore /\ [][NextScore]_vars

----------------------------------------------------------------------------
(* Spec: main.  The instance file is loaded, then the run evaluates one     *)
(* population per generation and calls the inspector, report_on_generation, *)
(* after each.                                                              *)

\* max_generations(1_000) and population_size(1_000), scaled down
MaxGenerations == 3

PopSize == 2

EcIndividual(genome, test_results) == [genome |-> genome, test_results |-> test_results]

\* Best.select: a member of the population no other member scores above
Best_select(pop) ==
    {pop[i] : i \in {j \in 1..Len(pop) :
        \A m \in 1..Len(pop) : ~gt(pop[m].test_results, pop[j].test_results)}}

\* the inspector keeps an update that replaces the record on a tie too
report_on_generation_replace_on_tie(best, stored) ==
    IF stored = <<>> THEN <<best>>
    ELSE IF ~lt(best.test_results, stored[1].test_results) THEN <<best>>
    ELSE stored

\* the inspector keeps the best of the latest generation, whatever it scores
report_on_generation_keep_latest(best, stored) == <<best>>

\* the match on best_in_run: the new value of best_in_run
report_on_generation(best, stored) ==
    IF stored = <<>> THEN <<best>>
    ELSE IF gt(best.test_results, stored[1].test_results) THEN <<best>>
    ELSE stored

Line138 == <<"1", " ", "3", " ", "8">>

Line228 == <<"2", " ", "2", " ", "8">>

Line39Max == <<"3", " ", "9", " ">> \o MaxStr

\* the instance files main is run on
MainFiles ==
    { <<>>,
      << <<"x">> >>,
      << MaxStr >>,
      << TenTo13Str >>,
      << TenTo9Str, Line138, <<"1", "0">> >>,
      << <<"2">>, Line138, <<"1", "0">> >>,
      << <<"2">>, Line138, <<"3", " ", "9">>, <<"1", "0">> >>,
      << <<"2">>, Line138, Line228 >>,
      << <<"1">>, Line228, <<"0">> >>,
      << <<"2">>, Line138, Line228, <<"1", "0">> >>,
      << <<"2">>, Line138, Line138, <<"1", "0">>, <<"x">> >>,
      << <<"2">>, Line138, Line39Max, <<"1", "0">> >> }

\* the allocator's limits main is run under on file f: both where the count of
\* f asks for more than 4 GiB, the smaller one where the request is granted
\* under either
MainMemory(f) ==
    IF f # <<>> /\ f[1] \in {TenTo9Str, TenTo13Str} THEN MemorySamples
    ELSE {<<0, 1, 0, 0>>}

Init ==
    /\ pc = "main"
    /\ overflow_checks \in BOOLEAN
    /\ file_opens \in BOOLEAN
    /\ file \in MainFiles
    /\ memory \in MainMemory(file)
    /\ loaded = NotLoaded
    /\ knapsack = <<>>
    /\ IdleCmp /\ IdleParse /\ IdleScore /\ IdleRun

\* a main that goes on with whatever was read when loading fails
Load_goes_on_after_error ==
    /\ pc = "main"
    /\ loaded' = from_file_path(file_opens, file)
    /\ knapsack' = <<loaded'.knapsack>>
    /\ pc' = IF loaded'.kind = "Panic" THEN "panicked"
             ELSE IF loaded'.kind = "Abort" THEN "aborted"
             ELSE "evaluate"
    /\ UNCHANGED <<overflow_checks, cmpVars, parseVars, file_opens, file, memory,
                   scoreVars, runVars>>

\* let knapsack = Knapsack::from_file_path(file_path)?;
Load ==
    /\ pc = "main"
    /\ loaded' = from_file_path(file_opens, file)
    /\ knapsack' = IF loaded'.kind = "Ok" THEN <<loaded'.knapsack>> ELSE <<>>
    /\ pc' = IF loaded'.kind = "Ok" THEN "evaluate"
             ELSE IF loaded'.kind = "Err" THEN "exit_err"
             ELSE IF loaded'.kind = "Abort" THEN "aborted"
             ELSE "panicked"
    /\ UNCHANGED <<overflow_checks, cmpVars, parseVars, file_opens, file, memory,
                   scoreVars, runVars>>

\* the run scores a population of PopSize bitstrings of num_items bits; a
\* scorer that panics takes the run down
Evaluate ==
    /\ pc = "evaluate"
    /\ generation < MaxGenerations
    /\ \E genomes \in [1..PopSize -> [1..num_items(knapsack[1]) -> BOOLEAN]] :
           LET scored == [i \in 1..PopSize |-> score(knapsack[1], genomes[i])]
           IN  IF \E i \in 1..PopSize : scored[i].panic
               THEN pc' = "panicked" /\ UNCHANGED population
               ELSE /\ pc' = "inspect"
                    /\ population' =
                           [i \in 1..PopSize |-> EcIndividual(genomes[i], scored[i].score)]
    /\ UNCHANGED <<overflow_checks, cmpVars, parseVars, loadVars, knapsack, scoreVars,
                   best_in_run, generation, gen_best, gen_bests>>

\* the inspector: report_on_generation(generation_number, population, &mut best_in_run)
Report ==
    /\ pc = "inspect"
    /\ \E best \in Best_select(population) :
           /\ best_in_run' = report_on_generation(best, best_in_run)
           /\ gen_best' = <<best>>
           /\ gen_bests' = Append(gen_bests, best.test_results)
    /\ generation' = generation + 1
    /\ pc' = "evaluate"
    /\ UNCHANGED <<overflow_checks, cmpVars, parseVars, loadVars, knapsack, scoreVars,
                   population>>

\* run.execute() returns after the last generation and main prints the results
Finish ==
    /\ pc = "evaluate"
    /\ generation = MaxGenerations
    /\ pc' = "exit_ok"
    /\ UNCHANGED <<overflow_checks, cmpVars, parseVars, loadVars, knapsack, scoreVars,
                   runVars>>

Next == Load \/ Evaluate \/ Report \/ Finish

Spec == Init /\ [][Next]_vars

----------------------------------------------------------------------------
(* Properties of the CliffScore ordering, under SpecCmp *)

\* the order the scores are meant to have: Overloaded below every Score, the
\* Scores by their number
RefOrder(a, b) ==
    IF a.tag = "Overloaded" /\ b.tag = "Overloaded" THEN "Equal"
    ELSE IF a.tag = "Overloaded" THEN "Less"
    ELSE IF b.tag = "Overloaded" THEN "Greater"
    ELSE IntCmp(Rank(a.v), Rank(b.v))

\* C2: comparing two scores gives the reference order: Overloaded is less than
\* every Score(n), Score(0) included, Overloaded equals Overloaded, and
\* Score(a) against Score(b) compares as the integers a and b do.
C2_CmpMatchesReferenceOrder ==
    pc = "done" =>
        /\ ord.ab = RefOrder(sa, sb)
        /\ ord.eq_ab = (RefOrder(sa, sb) = "Equal")

C2_Witness ==
    pc = "done" /\ sa = Overloaded /\ sb = Score(U64(0)) /\ ord.ab = "Less"

\* C3: the order is total: exactly one of a < b, a == b, a > b holds; a
\* compares equal to itself; a <= b and b <= a give a == b; a < b and b < c
\* give a < c.
C3_TotalOrder ==
    pc = "done" =>
        /\ Cardinality({x \in {"lt", "eq", "gt"} :
                \/ x = "lt" /\ ord.lt_ab
                \/ x = "eq" /\ ord.eq_ab
                \/ x = "gt" /\ ord.gt_ab}) = 1
        /\ ord.aa = "Equal"
        /\ (ord.ab # "Greater" /\ ord.ba # "Greater") => ord.eq_ab
        /\ (ord.ab = "Less" /\ ord.bc = "Less") => ord.ac = "Less"

C3_Witness ==
    /\ pc = "done"
    /\ sa = Overloaded /\ sb = Score(U64(Base - 1)) /\ sc = Score(<<0, 0, 1, 0>>)
    /\ ord.ab = "Less" /\ ord.bc = "Less" /\ ord.ac = "Less"

----------------------------------------------------------------------------
(* Properties of Item::from_str, under SpecParse *)

\* C8: parsing a line succeeds exactly when it is written from exactly three
\* fields that each denote a u64, and then the item's id, value and weight
\* are the first, second and third field; any other line gives an error.
C8_ItemParsesExactlyThreeNumbers ==
    pc = "done" =>
        LET r == parsed[1]
            three == Len(fields) = 3 /\ \A i \in 1..3 : fields[i].num # <<>>
        IN  /\ r.ok = three
            /\ r.ok => r.item = Item_new(fields[1].num[1], fields[2].num[1],
                                         fields[3].num[1])

C8_Witness ==
    /\ pc = "done" /\ parsed[1].ok
    /\ parsed[1].item = Item_new(U64(7), U64_MAX, <<0, 0, 1, 0>>)
    /\ Head(line) = " "

----------------------------------------------------------------------------
(* Properties of Knapsack::from_file_path, under SpecLoad *)

IsSmall(u) == u[1] = 0 /\ u[2] = 0 /\ u[3] = 0

\* the first line denotes a number
DeclaresCount(f) == Len(f) >= 1 /\ Entry(f[1]).num # <<>>

DeclaredCount(f) == Entry(f[1]).num[1]

\* a count line, that many item lines, a capacity line, then anything
WellFormedFile(f) ==
    /\ DeclaresCount(f)
    /\ IsSmall(DeclaredCount(f))
    /\ LET n == DeclaredCount(f)[4]
       IN  /\ Len(f) >= n + 2
           /\ \A i \in 2..(n + 1) : Entry(f[i]).item # <<>>
           /\ Entry(f[n + 2]).num # <<>>

\* C6: a file written as a count N, N item lines and a capacity line loads to
\* the knapsack of exactly those N items, in file order, with that capacity;
\* lines after the capacity line change nothing.
C6_WellFormedFileLoads ==
    (pc = "done" /\ file_opens /\ WellFormedFile(file)) =>
        LET n == DeclaredCount(file)[4]
        IN  loaded = LoadOk(Knapsack_new([i \in 1..n |-> Entry(file[i + 1]).item[1]],
                                         Entry(file[n + 2]).num[1]))

C6_Witness ==
    /\ pc = "done" /\ file_opens /\ WellFormedFile(file)
    /\ Len(file) > DeclaredCount(file)[4] + 2
    /\ loaded.kind = "Ok" /\ Len(loaded.knapsack.items) = 1
    /\ loaded.knapsack.capacity = U64_MAX

\* the file is empty, or it declares N items and then lacks one of the N item
\* lines, has a malformed one among them, lacks the capacity line or has a
\* malformed one
MalformedFile(f) ==
    \/ f = <<>>
    \/ /\ DeclaresCount(f)
       /\ \/ ~IsSmall(DeclaredCount(f))
          \/ LET n == DeclaredCount(f)[4]
             IN  \/ Len(f) < n + 2
                 \/ \E i \in 2..(n + 1) : Entry(f[i]).item = <<>>
                 \/ Entry(f[n + 2]).num = <<>>

\* C7: loading such a file returns an error, and a knapsack that is returned
\* holds all the declared items.
C7_MalformedFileIsAnError ==
    pc = "done" =>
        /\ (file_opens /\ MalformedFile(file)) => loaded.kind = "Err"
        /\ loaded.kind = "Ok" =>
               /\ DeclaresCount(file)
               /\ U64(Len(loaded.knapsack.items)) = DeclaredCount(file)

----------------------------------------------------------------------------
(* Properties of value, weight and the scorer, under SpecScore *)

Exceeds(x, y) == \E i \in 1..4 : x[i] > y[i] /\ \A j \in 1..(i - 1) : x[j] = y[j]

\* C1: the score is Overloaded exactly when weight(choices) exceeds the
\* capacity and Score(value(choices)) otherwise (a call that panics makes the
\* scorer panic); a weight equal to the capacity scores a Score, and with
\* capacity 0 only a weight of 0 does.
C1_CliffAtCapacity ==
    pc = "done" =>
        LET k == knapsack[1]
            w == weight_result[1]
            v == value_result[1]
            r == score_result[1]
        IN  /\ IF w.panic THEN r.panic
               ELSE IF Exceeds(w.val, k.capacity) THEN r = ScoreOk(Overloaded)
               ELSE IF v.panic THEN r.panic
               ELSE r = ScoreOk(Score(v.val))
            /\ (~w.panic /\ ~v.panic /\ w.val = k.capacity) => r.score.tag = "Score"
            /\ (~r.panic /\ r.score.tag = "Score" /\ k.capacity = U64(0)) => w.val = U64(0)

C1_Witness ==
    /\ pc = "done"
    /\ knapsack[1].capacity = U64(14)
    /\ weight_result[1] = SumOk(U64(14))
    /\ score_result[1] = ScoreOk(Score(U64(14)))

\* the indices that count: below both lengths, with the bit set
ChosenIndices(k, bits) ==
    {i \in 1..Len(k.items) : i <= Len(bits) /\ bits[i]}

\* the sum of the terms xs[i], i in I, not truncated: val is the sum modulo
\* 2^64 and carries the number of times 2^64 was passed
RECURSIVE WideSum(_, _, _)
WideSum(xs, I, i) ==
    IF i > Len(xs) THEN [carries |-> 0, val |-> U64(0)]
    ELSE LET rest == WideSum(xs, I, i + 1)
         IN  IF i \notin I THEN rest
             ELSE LET r == overflowing_add(rest.val, xs[i])
                  IN  [carries |-> rest.carries + (IF r.overflow THEN 1 ELSE 0),
                       val |-> r.val]

Values(k) == [i \in 1..Len(k.items) |-> k.items[i].value]

Weights(k) == [i \in 1..Len(k.items) |-> k.items[i].weight]

\* C4: value(choices) is the sum of the values of the items at the indices
\* below both lengths whose bit is set, and weight(choices) the sum of their
\* weights.
C4_SumOverChosenItems ==
    pc = "done" =>
        LET k == knapsack[1]
            I == ChosenIndices(k, choices)
            vs == WideSum(Values(k), I, 1)
            ws == WideSum(Weights(k), I, 1)
        IN  /\ vs.carries = 0 /\ value_result[1] = SumOk(vs.val)
            /\ ws.carries = 0 /\ weight_result[1] = SumOk(ws.val)

\* what holds of the code: the sums agree whenever they fit in a u64
SumsAgreeBelowOverflow ==
    pc = "done" =>
        LET k == knapsack[1]
            I == ChosenIndices(k, choices)
            vs == WideSum(Values(k), I, 1)
            ws == WideSum(Weights(k), I, 1)
        IN  /\ vs.carries = 0 => value_result[1] = SumOk(vs.val)
            /\ ws.carries = 0 => weight_result[1] = SumOk(ws.val)

\* C11: value(choices), weight(choices) and the score return a result for
\* every knapsack and every choice vector, also when the sum of the chosen
\* values or weights exceeds the largest u64.
C11_AggregationNeverFails ==
    /\ value_result # <<>> => ~value_result[1].panic
    /\ weight_result # <<>> => ~weight_result[1].panic
    /\ score_result # <<>> => ~score_result[1].panic

\* what holds of the code: a call panics exactly when the build checks
\* overflow and the sum it folds passes 2^64 (the scorer when a call it makes
\* does); in a build without the checks every call returns, the sum wrapped
PanicsExactlyOnCheckedOverflow ==
    pc = "done" =>
        LET k == knapsack[1]
            I == ChosenIndices(k, choices)
            vs == WideSum(Values(k), I, 1)
            ws == WideSum(Weights(k), I, 1)
            w == weight_result[1]
        IN  /\ value_result[1].panic = (overflow_checks /\ vs.carries > 0)
            /\ w.panic = (overflow_checks /\ ws.carries > 0)
            /\ score_result[1].panic =
                   \/ w.panic
                   \/ ~Exceeds(w.val, k.capacity) /\ value_result[1].panic
            /\ ~overflow_checks =>
                   /\ value_result[1] = SumOk(vs.val)
                   /\ w = SumOk(ws.val)

----------------------------------------------------------------------------
(* Properties of the best-ever bookkeeping and of main, under Spec *)

Range(q) == {q[i] : i \in 1..Len(q)}

\* the greatest of a non-empty sequence of scores under the score order
MaxScore(q) == CHOOSE s \in Range(q) : \A t \in Range(q) : cmp(t, s) # "Greater"

\* C5: after report_on_generation has been called for generations 1..i, the
\* score in the best-ever record is the maximum of their best scores.
C5_BestEverIsMaxSoFar ==
    /\ Len(gen_bests) = generation
    /\ generation >= 1 =>
           /\ best_in_run # <<>>
           /\ best_in_run[1].test_results = MaxScore(gen_bests)

C5_Witness ==
    /\ generation = 3
    /\ gen_bests[1] = Score(U64(3))
    /\ gen_bests[2] = Overloaded
    /\ gen_bests[3] = Score(U64(0))
    /\ best_in_run[1].test_results = Score(U64(3))

\* C9: when loading fails, the run ends with that error and no population is
\* ever scored, no generation reported and no best-ever record set; all of
\* that happens only after a load that returned the whole declared knapsack.
C9_NoGenerationWithoutLoadedKnapsack ==
    /\ loaded.kind \in {"Err", "Panic", "Abort"} =>
           /\ pc \in {"exit_err", "panicked", "aborted"}
           /\ loaded.kind = "Err" => pc = "exit_err"
           /\ knapsack = <<>>
           /\ population = <<>> /\ generation = 0 /\ gen_bests = <<>>
           /\ best_in_run = <<>>
    /\ (population # <<>> \/ generation > 0 \/ best_in_run # <<>>
            \/ pc \in {"evaluate", "inspect", "exit_ok"}) =>
           /\ loaded.kind = "Ok"
           /\ WellFormedFile(file)
           /\ knapsack = <<loaded.knapsack>>
           /\ U64(Len(knapsack[1].items)) = DeclaredCount(file)

C9_Witness ==
    /\ pc = "exit_err" /\ loaded.err = "NoCapacityLine"
    /\ Len(file) = 3 /\ population = <<>> /\ generation = 0 /\ best_in_run = <<>>

\* C10: with a record present, the update replaces it only when the
\* generation's best score is strictly greater; on an equal or lower score
\* the stored candidate and score stay as they are, and applying the update
\* again with the same generation best changes nothing.
C10_ReplaceOnlyOnStrictlyGreater ==
    [][(pc = "inspect" /\ best_in_run # <<>>) =>
          LET best == gen_best'[1]
          IN  /\ IF cmp(best.test_results, best_in_run[1].test_results) = "Greater"
                 THEN best_in_run' = <<best>>
                 ELSE best_in_run' = best_in_run
              /\ report_on_generation(best, best_in_run') = best_in_run']_vars

C10_Witness ==
    /\ generation >= 2
    /\ gen_best[1].test_results = best_in_run[1].test_results
    /\ gen_best[1].genome # best_in_run[1].genome
    /\ gen_bests[1] = best_in_run[1].test_results

====
